---- MODULE Spec2Model ----
(***************************************************************************)
(* blacken-docs: format_str / format_file of src/blacken_docs.py, and the   *)
(* prose functions of src/blacken_docs/formatter.py and src/formatter.py.  *)
(*                                                                         *)
(* A document is a sequence of tokens.  A token is either a single         *)
(* character the patterns inspect one by one (a space, a newline) or a     *)
(* maximal literal that the patterns and the formatter only ever compare   *)
(* as a whole (a fence, a directive, a \begin or \end marker, one Python    *)
(* statement).  Offsets are token offsets; lines are newline-terminated.   *)
(***************************************************************************)
EXTENDS Integers, Sequences, FiniteSets, TLC

VARIABLES
    file,       \* the stored document (what is on disk)
    contents,   \* format_file: the text read from the file
    src,        \* format_str: the text being rewritten, pass after pass
    errors,     \* format_str: the CodeBlockError list, in order of recording
    pc,         \* position in format_file / format_str
    report,     \* the black.Report: failure messages and the done verdict
    passIn,     \* history: the text each dialect pass started from
    impl,       \* prose: the module whose functions are called
    string,     \* fix_inline: the argument of the first call
    returned,   \* fix_inline: what each call in turn returned
    mode,       \* the black.Mode the caller shares between calls
    given,      \* history: mode.line_length before the first call
    outcome     \* how the last call on mode ended, and with what

\* the variables of format_file and those of the prose functions
docVars == <<file, contents, src, errors, pc, report, passIn>>
proseVars == <<impl, string, returned, mode, given, outcome>>

vars == <<docVars, proseVars>>

\* no prose function is being called
ProseIdle ==
    /\ impl = "none"
    /\ string = <<>>
    /\ returned = <<>>
    /\ mode = [line_length |-> 0]
    /\ given = 0
    /\ outcome = [how |-> "none", value |-> <<>>, calls |-> 0]

-----------------------------------------------------------------------------
(* Tokens *)

SP == " "
NL == "\n"

FMT == "x = 1"      \* a statement the formatter leaves as it is
RAW == "x=1"        \* a statement the formatter rewrites to FMT
BAD == "x=("        \* a statement the formatter rejects

\* the fence: TLA+ strings hold no backtick, so ' stands for it
MD_OPEN == "'''python"
MD_CLOSE == "'''"
DIRECTIVE == ".. code-block:: python"
OPTION == ":linenos:"
MINTED_BEGIN == "\\begin{minted}{python}"
MINTED_END == "\\end{minted}"

Max(S) == CHOOSE x \in S : \A y \in S : y <= x
Min(S) == CHOOSE x \in S : \A y \in S : x <= y

Spaces(n) == [k \in 1..n |-> SP]

-----------------------------------------------------------------------------
(* Regular-expression primitives (re.MULTILINE) *)

\* ^ : at the start of the string or right after a newline
IsBOL(s, i) == i = 1 \/ (i >= 2 /\ i <= Len(s) + 1 /\ s[i - 1] = NL)

\* $ : at the end of the string or right before a newline
IsEOL(s, i) == i = Len(s) + 1 \/ (i >= 1 /\ i <= Len(s) /\ s[i] = NL)

\* " *" : the length of the maximal run of spaces that starts at i
CountSp(s, i) ==
    Max({n \in 0..(Len(s) + 1 - i) : \A k \in 0..(n - 1) : s[i + k] = SP})

\* \s* : the first position at or after i that holds no whitespace
WsEnd(s, i) ==
    Min({j \in i..(Len(s) + 1) : j = Len(s) + 1 \/ s[j] \notin {SP, NL}})

\* \s*$ from i: greedy, giving characters back until $ holds; 0 if it never does
AfterEnd(s, i) ==
    LET cands == {e \in i..WsEnd(s, i) : IsEOL(s, e)}
    IN  IF cands = {} THEN 0 ELSE Max(cands)

\* the index of the first newline at or after i; 0 if there is none
LineEnd(s, i) ==
    LET nls == {j \in i..Len(s) : s[j] = NL}
    IN  IF nls = {} THEN 0 ELSE Min(nls)

NoMatch ==
    [start |-> 0, end |-> 0, before |-> <<>>, indent |-> <<>>, code |-> <<>>,
     after |-> <<>>]

-----------------------------------------------------------------------------
(* The four dialect patterns *)

\* MD_RE, LATEX_RE and PYTHONTEX_RE have one shape,
\*   (?P<before>^(?P<indent> *)OPEN\n)(?P<code>.*?)(?P<after>^(?P=indent)CLOSE\s*$)
\* with re.DOTALL | re.MULTILINE; each is given here as the map from its
\* opening tokens to the closing token the opening demands.
MD_RE == [o \in {MD_OPEN} |-> MD_CLOSE]

LATEX_RE == [o \in {MINTED_BEGIN} |-> MINTED_END]

PYTHONTEX_LANG == {"pyblock", "pycode", "pyconsole", "pyverbatim"}

PyBegin ==
    [l \in PYTHONTEX_LANG |->
        CASE l = "pyblock" -> "\\begin{pyblock}"
          [] l = "pycode" -> "\\begin{pycode}"
          [] l = "pyconsole" -> "\\begin{pyconsole}"
          [] l = "pyverbatim" -> "\\begin{pyverbatim}"]

PyEnd ==
    [l \in PYTHONTEX_LANG |->
        CASE l = "pyblock" -> "\\end{pyblock}"
          [] l = "pycode" -> "\\end{pycode}"
          [] l = "pyconsole" -> "\\end{pyconsole}"
          [] l = "pyverbatim" -> "\\end{pyverbatim}"]

\* PYTHONTEX_RE as it would be with the closing alias spelled out in place of
\* the back-reference
PythontexFixedClose ==
    [o \in {PyBegin[l] : l \in PYTHONTEX_LANG} |-> PyEnd["pyblock"]]

\* (?P=lang): the closing marker names the alias the opening marker captured
PYTHONTEX_RE ==
    [o \in {PyBegin[l] : l \in PYTHONTEX_LANG} |->
        PyEnd[CHOOSE l \in PYTHONTEX_LANG : PyBegin[l] = o]]

\* ^(?P=indent)CLOSE\s*$ at j, for an indent of n spaces
CloseAt(s, j, n, close) ==
    /\ IsBOL(s, j)
    /\ j + n <= Len(s)
    /\ \A k \in 0..(n - 1) : s[j + k] = SP
    /\ s[j + n] = close
    /\ AfterEnd(s, j + n + 1) # 0

\* the match of a delimited pattern that starts at i, or NoMatch
DelimMatchAt(s, i, re) ==
    LET n == CountSp(s, i)
        o == i + n
    IN  IF ~(IsBOL(s, i) /\ o + 1 <= Len(s) /\ s[o] \in DOMAIN re /\ s[o + 1] = NL)
        THEN NoMatch
        ELSE LET cs == o + 2
                 \* .*? is lazy: the code ends at the first position where the
                 \* closing part matches
                 closes == {j \in cs..Len(s) : CloseAt(s, j, n, re[s[o]])}
             IN  IF closes = {} THEN NoMatch
                 ELSE LET j == Min(closes)
                          e == AfterEnd(s, j + n + 1)
                      IN  [start  |-> i,
                           end    |-> e,
                           before |-> SubSeq(s, i, cs - 1),
                           indent |-> Spaces(n),
                           code   |-> SubSeq(s, cs, j - 1),
                           after  |-> SubSeq(s, j, e - 1)]

PY_LANGS == {"python", "py", "sage", "python3", "py3", "numpy"}
BLOCK_TYPES == {"code", "code-block", "sourcecode", "ipython"}

\* the directive tokens RST_RE accepts after "^(?P<indent> *)": the no-argument
\* ".. jupyter-execute::" and every ".. {BLOCK_TYPES}:: {PY_LANGS}"; the
\* documents of this model use the two spelled out here
RstDirectives == {DIRECTIVE, ".. jupyter-execute::"}

\* ":.*" : a token that starts with a colon
IsOptionToken(t) == t = OPTION

\* (?P=indent) +:.*\n at p: the position after the line, or 0
OptionLineEnd(s, p, n) ==
    IF p > Len(s) THEN 0
    ELSE LET c == CountSp(s, p)
             e == LineEnd(s, p)
         IN  IF c >= n + 1 /\ e # 0 /\ p + c <= Len(s) /\ IsOptionToken(s[p + c])
             THEN e + 1 ELSE 0

\* ^((?P=indent) +.*)?\n at q: the position after the line, or 0
CodeLineEnd(s, q, n) ==
    IF q > Len(s) THEN 0
    ELSE LET c == CountSp(s, q)
             e == LineEnd(s, q)
         IN  IF c >= n + 1 /\ e # 0 THEN e + 1
             ELSE IF s[q] = NL THEN q + 1
             ELSE 0

\* the position after k option lines that start at p; 0 if there are fewer
RECURSIVE OptionPos(_, _, _, _)
OptionPos(s, p, n, k) ==
    IF k = 0 THEN p
    ELSE LET e == OptionLineEnd(s, p, n)
         IN  IF e = 0 THEN 0 ELSE OptionPos(s, e, n, k - 1)

\* (...)+ is greedy and nothing follows it: the position after the last code line
RECURSIVE CodeRunEnd(_, _, _)
CodeRunEnd(s, q, n) ==
    LET e == CodeLineEnd(s, q, n)
    IN  IF e = 0 THEN q ELSE CodeRunEnd(s, e, n)

\* \n* : the length of the run of newlines that starts at p
NlRun(s, p) ==
    Max({m \in 0..(Len(s) + 1 - p) : \A k \in 0..(m - 1) : s[p + k] = NL})

\* RST_RE (re.MULTILINE):
\*   (?P<before>^(?P<indent> *)\.\. (jupyter-execute::|{BLOCK_TYPES}:: {PY_LANGS})\n
\*              ((?P=indent) +:.*\n)*\n*)
\*   (?P<code>(^((?P=indent) +.*)?\n)+)
\* The option lines and the blank lines are greedy: the engine tries the most
\* option lines first, then the most newlines, and gives back one at a time
\* until at least one code line follows.
RstMatchAt(s, i) ==
    LET n == CountSp(s, i)
        o == i + n
    IN  IF ~(IsBOL(s, i) /\ o + 1 <= Len(s) /\ s[o] \in RstDirectives /\ s[o + 1] = NL)
        THEN NoMatch
        ELSE LET p0 == o + 2
                 ks == {k \in 0..Len(s) : OptionPos(s, p0, n, k) # 0}
                 cands == {km \in ks \X (0..Len(s)) :
                              /\ km[2] <= NlRun(s, OptionPos(s, p0, n, km[1]))
                              /\ CodeLineEnd(s, OptionPos(s, p0, n, km[1]) + km[2], n) # 0}
             IN  IF cands = {} THEN NoMatch
                 ELSE LET k == Max({km[1] : km \in cands})
                          m == Max({km[2] : km \in {c \in cands : c[1] = k}})
                          q == OptionPos(s, p0, n, k) + m
                          e == CodeRunEnd(s, q, n)
                      IN  [start  |-> i,
                           end    |-> e,
                           before |-> SubSeq(s, i, q - 1),
                           indent |-> Spaces(n),
                           code   |-> SubSeq(s, q, e - 1),
                           after  |-> <<>>]

-----------------------------------------------------------------------------
(* The library functions the replacement callbacks call *)

\* str.splitlines(True): the lines of s, each with its newline
RECURSIVE SplitLines(_)
SplitLines(s) ==
    IF s = <<>> THEN <<>>
    ELSE LET e == LineEnd(s, 1)
         IN  IF e = 0 THEN <<s>>
             ELSE <<SubSeq(s, 1, e)>> \o SplitLines(SubSeq(s, e + 1, Len(s)))

RECURSIVE Join(_)
Join(ls) == IF ls = <<>> THEN <<>> ELSE Head(ls) \o Join(Tail(ls))

\* the newline that ends a line, if it has one
LineNl(l) == IF l # <<>> /\ l[Len(l)] = NL THEN <<NL>> ELSE <<>>

\* the line without its newline
LineBody(l) == SubSeq(l, 1, Len(l) - Len(LineNl(l)))

\* a line that holds nothing but spaces (an empty line included)
IsBlankLine(l) == \A k \in 1..Len(LineBody(l)) : l[k] = SP

\* textwrap.dedent: lines of whitespace only are normalised to a bare newline,
\* then the margin common to the remaining lines is removed from each of them
Dedent(text) ==
    LET ls == SplitLines(text)
        full == {k \in 1..Len(ls) : ~IsBlankLine(ls[k])}
        margin == IF full = {} THEN 0 ELSE Min({CountSp(ls[k], 1) : k \in full})
    IN  Join([k \in 1..Len(ls) |->
                IF IsBlankLine(ls[k]) THEN LineNl(ls[k])
                ELSE SubSeq(ls[k], margin + 1, Len(ls[k]))])

\* textwrap.indent: the prefix goes before every line that is not whitespace only
Indent(text, prefix) ==
    LET ls == SplitLines(text)
    IN  Join([k \in 1..Len(ls) |->
                IF IsBlankLine(ls[k]) THEN ls[k] ELSE prefix \o ls[k]])

\* str.rstrip(): trailing whitespace removed
RStrip(s) ==
    LET keep == {k \in 1..Len(s) : s[k] \notin {SP, NL}}
    IN  IF keep = {} THEN <<>> ELSE SubSeq(s, 1, Max(keep))

\* INDENT_RE.findall(code), INDENT_RE = "^ +(?=[^ ])" with re.MULTILINE: the
\* leading run of spaces of every line that starts with a space and has a
\* character other than a space after the run (a newline is such a character);
\* each run is given by its length
IndentFindall(code) ==
    LET ls == SplitLines(code)
    IN  {CountSp(ls[k], 1) : k \in {j \in 1..Len(ls) :
            /\ CountSp(ls[j], 1) >= 1
            /\ CountSp(ls[j], 1) < Len(ls[j])}}

\* TRAILING_NL_RE.search(code), TRAILING_NL_RE = "\n+\Z": the maximal run of
\* newlines that ends the code (empty: the search finds nothing)
TrailingNl(code) ==
    LET m == Max({n \in 0..Len(code) : \A k \in 0..(n - 1) : code[Len(code) - k] = NL})
    IN  [k \in 1..m |-> NL]

-----------------------------------------------------------------------------
(* The formatter, black.format_str, on the statements of this model *)

\* a line the formatter takes: one statement at column 0, trailing spaces allowed
IsStatementLine(l) ==
    LET b == LineBody(l)
    IN  /\ b # <<>>
        /\ b[1] \in {FMT, RAW}
        /\ \A k \in 2..Len(b) : b[k] = SP

\* the blank lines kept before the statement of line k: at most two, and none
\* before the first statement
BlanksBefore(ls, k) ==
    LET prev == {j \in 1..(k - 1) : ~IsBlankLine(ls[j])}
    IN  IF prev = {} THEN 0
        ELSE IF k - 1 - Max(prev) > 2 THEN 2 ELSE k - 1 - Max(prev)

\* black.format_str(code): rejects code with a line that is neither blank nor a
\* statement (black.InvalidInput); otherwise writes every statement in its
\* formatted form, one per line, drops the blank lines before the first and
\* after the last statement and keeps at most two between statements
BlackFormat(code) ==
    LET ls == SplitLines(code)
        stmts == {k \in 1..Len(ls) : ~IsBlankLine(ls[k])}
    IN  IF \E k \in stmts : ~IsStatementLine(ls[k])
        THEN [ok |-> FALSE, out |-> <<>>]
        ELSE [ok |-> TRUE,
              out |-> Join([k \in 1..Len(ls) |->
                        IF k \in stmts
                        THEN [b \in 1..BlanksBefore(ls, k) |-> NL] \o <<FMT, NL>>
                        ELSE <<>>])]

-----------------------------------------------------------------------------
(* format_str: the replacement callbacks *)

\* _md_match as it would be with the closing fence left out of the f-string
MdMatchDropsAfter(m) ==
    LET code == Dedent(m.code)
        r == BlackFormat(code)
        out == IF r.ok THEN r.out ELSE code
    IN  [raised |-> FALSE,
         rejected |-> ~r.ok,
         text |-> m.before \o Indent(out, m.indent)]

\* _md_match: the outcome of the callback on a match m of MD_RE. A formatter
\* rejection is caught by _collect_error, which records the match's start, and
\* the code goes on as it was after textwrap.dedent.
MdMatch(m) ==
    LET code == Dedent(m.code)
        r == BlackFormat(code)
        out == IF r.ok THEN r.out ELSE code
    IN  [raised |-> FALSE,
         rejected |-> ~r.ok,
         text |-> m.before \o Indent(out, m.indent) \o m.after]

\* _rst_match: min() of an empty findall raises ValueError and a failed
\* "assert trailing_ws_match" raises AssertionError, both outside _collect_error
RstMatch(m) ==
    LET found == IndentFindall(m.code)
        trailing_ws == TrailingNl(m.code)
    IN  IF found = {} \/ trailing_ws = <<>>
        THEN [raised |-> TRUE, rejected |-> FALSE, text |-> <<>>]
        ELSE LET min_indent == Spaces(Min(found))
                 code == Dedent(m.code)
                 r == BlackFormat(code)
                 out == IF r.ok THEN r.out ELSE code
             IN  [raised |-> FALSE,
                  rejected |-> ~r.ok,
                  text |-> m.before \o RStrip(Indent(out, min_indent)) \o trailing_ws]

\* _latex_match as it would be if the rejection were swallowed and not recorded
LatexMatchUnrecorded(m) ==
    LET code == Dedent(m.code)
        r == BlackFormat(code)
        out == IF r.ok THEN r.out ELSE code
    IN  [raised |-> FALSE,
         rejected |-> FALSE,
         text |-> m.before \o Indent(out, m.indent) \o m.after]

\* _latex_match: the callback of LATEX_RE and of PYTHONTEX_RE
LatexMatch(m) ==
    LET code == Dedent(m.code)
        r == BlackFormat(code)
        out == IF r.ok THEN r.out ELSE code
    IN  [raised |-> FALSE,
         rejected |-> ~r.ok,
         text |-> m.before \o Indent(out, m.indent) \o m.after]

Passes == <<"md", "rst", "latex", "pythontex">>

\* the pattern of a pass, matched at position i of s
PassMatchAt(pass, s, i) ==
    CASE pass = "md" -> DelimMatchAt(s, i, MD_RE)
      [] pass = "rst" -> RstMatchAt(s, i)
      [] pass = "latex" -> DelimMatchAt(s, i, LATEX_RE)
      [] pass = "pythontex" -> DelimMatchAt(s, i, PYTHONTEX_RE)

\* the callback of a pass
PassCallback(pass, m) ==
    CASE pass = "md" -> MdMatch(m)
      [] pass = "rst" -> RstMatch(m)
      [] pass = "latex" -> LatexMatch(m)
      [] pass = "pythontex" -> LatexMatch(m)

\* the match at the least of the positions starts, or NoMatch
Leftmost(pass, s, starts) ==
    IF starts = {} THEN NoMatch ELSE PassMatchAt(pass, s, Min(starts))

\* the leftmost match that starts at or after pos
NextMatch(pass, s, pos) ==
    Leftmost(pass, s, {i \in pos..Len(s) : PassMatchAt(pass, s, i).start # 0})

\* _collect_error: errors.append(CodeBlockError(match.start(), e)); the offset
\* is 0-based and counts in the text the running pass was given
CollectError(pass, m) == [offset |-> m.start - 1, pass |-> pass]

\* PATTERN.sub(callback, s) from position pos on: the text between matches is
\* copied, every match is replaced by what the callback returns, and a callback
\* that raises ends the whole call
RECURSIVE SubFrom(_, _, _)

\* the text from pos on when the next match is m, the callback gave r for it
\* and the text after the match came out as rest
Replaced(pass, s, pos, m, r, rest) ==
    IF r.raised \/ rest.raised
    THEN [raised |-> TRUE, text |-> <<>>, errs |-> <<>>]
    ELSE [raised |-> FALSE,
          text |-> SubSeq(s, pos, m.start - 1) \o r.text \o rest.text,
          errs |-> (IF r.rejected THEN <<CollectError(pass, m)>> ELSE <<>>)
                   \o rest.errs]

\* the text from pos on when the next match is m (NoMatch: the rest is copied)
SubAt(pass, s, pos, m) ==
    IF m.start = 0
    THEN [raised |-> FALSE, text |-> SubSeq(s, pos, Len(s)), errs |-> <<>>]
    ELSE Replaced(pass, s, pos, m, PassCallback(pass, m), SubFrom(pass, s, m.end))

SubFrom(pass, s, pos) == SubAt(pass, s, pos, NextMatch(pass, s, pos))

Sub(pass, s) == SubFrom(pass, s, 1)

\* format_str as a function: the four passes in order, each on the output of
\* the one before; raised when a callback raised
RECURSIVE FormatFrom(_, _, _)
FormatFrom(k, s, errs) ==
    IF k > Len(Passes) THEN [raised |-> FALSE, text |-> s, errs |-> errs]
    ELSE LET r == Sub(Passes[k], s)
         IN  IF r.raised THEN [raised |-> TRUE, text |-> <<>>, errs |-> <<>>]
             ELSE FormatFrom(k + 1, r.text, errs \o r.errs)

FormatStr(s) == FormatFrom(1, s, <<>>)

-----------------------------------------------------------------------------
(* The documents *)

MaxCode == 2        \* code lines of a one-block document
MaxIndent == 2      \* spaces before a code line
MaxSegs == 2        \* segments of a many-block document

Line(n, body) == Spaces(n) \o body \o <<NL>>

\* what a code line may hold: nothing, a statement to rewrite, a rejected one
CodeBodies == {<<>>, <<RAW>>, <<BAD>>}

CodeLines == {Line(n, b) : n \in 0..MaxIndent, b \in CodeBodies}

RECURSIVE CodeTexts(_)
CodeTexts(k) ==
    IF k = 0 THEN {<<>>}
    ELSE LET shorter == CodeTexts(k - 1)
         IN  shorter \cup {c \o l : c \in shorter, l \in CodeLines}

OpenIndents == {0, 1}

\* the opening lines of a fenced block and of a directive block, at indent n:
\* the directive alone (a blank line after it is a first code line of no
\* characters), and with an option line and a blank line
Openers(n) ==
    {<<"md", Line(n, <<MD_OPEN>>)>>,
     <<"rst", Line(n, <<DIRECTIVE>>)>>,
     <<"rst", Line(n, <<DIRECTIVE>>) \o Line(n + 1, <<OPTION>>) \o <<NL>>>>}

\* the closing lines tried after an opening of dialect d: none, or the closing
\* fence at either indent
Closers(d) ==
    IF d = "md" THEN {<<>>} \cup {Line(n, <<MD_CLOSE>>) : n \in OpenIndents}
    ELSE {<<>>}

\* one block: opening lines, up to MaxCode code lines, a closing line
OneBlockDocs ==
    UNION {{o[2] \o c \o z : c \in CodeTexts(MaxCode), z \in Closers(o[1])} :
           o \in UNION {Openers(n) : n \in OpenIndents}}

\* the code of a segment: a blank line, a statement to rewrite, a rejected
\* statement, a line of one space
SegCodes == {<<NL>>, Line(0, <<RAW>>), Line(1, <<BAD>>), Line(1, <<>>)}

\* the segments of a many-block document: a line of prose, a closing marker
\* alone, a block of each dialect, an opening marker closed by another alias
Segs ==
    {Line(0, <<FMT>>), Line(0, <<PyEnd["pycode"]>>)}
    \cup {Line(0, <<MD_OPEN>>) \o c \o Line(0, <<MD_CLOSE>>) : c \in SegCodes}
    \cup {Line(0, <<DIRECTIVE>>) \o c : c \in SegCodes}
    \cup {Line(0, <<MINTED_BEGIN>>) \o c \o Line(0, <<MINTED_END>>) : c \in SegCodes}
    \cup {Line(0, <<PyBegin["pycode"]>>) \o c \o Line(0, <<PyEnd[l]>>) :
             c \in SegCodes, l \in {"pycode", "pyblock"}}

RECURSIVE SegDocs(_)
SegDocs(k) ==
    IF k = 0 THEN {<<>>}
    ELSE LET shorter == SegDocs(k - 1)
         IN  shorter \cup {d \o g : d \in shorter, g \in Segs}

Docs == OneBlockDocs \cup SegDocs(MaxSegs)

-----------------------------------------------------------------------------
(* format_file *)

Init ==
    /\ file \in Docs
    /\ contents = <<>>
    /\ src = <<>>
    /\ errors = <<>>
    /\ pc = "open"
    /\ report = [failed |-> <<>>, done |-> "none", ret |-> "none"]
    /\ passIn = <<>>
    /\ ProseIdle

\* with open(file) as f: contents = f.read(); format_str starts on contents
ReadFile ==
    /\ pc = "open"
    /\ contents' = file
    /\ src' = file
    /\ pc' = "md"
    /\ UNCHANGED <<file, errors, report, passIn, proseVars>>

\* src = PATTERN.sub(callback, src) returns
PassReturns(pass, next) ==
    /\ pc = pass
    /\ \E r \in {Sub(pass, src)} :
          /\ ~r.raised
          /\ src' = r.text
          /\ errors' = errors \o r.errs
    /\ passIn' = Append(passIn, src)
    /\ pc' = next
    /\ UNCHANGED <<file, contents, report, proseVars>>

\* a callback raised: the exception leaves format_str and format_file, which
\* catch nothing here
PassRaises(pass) ==
    /\ pc = pass
    /\ Sub(pass, src).raised
    /\ pc' = "raised"
    /\ UNCHANGED <<file, contents, src, errors, report, passIn, proseVars>>

MdPass == PassReturns("md", "rst")

RstPass == PassReturns("rst", "latex")

RstPassRaises == PassRaises("rst")

LatexPass == PassReturns("latex", "pythontex")

PythontexPass == PassReturns("pythontex", "returned")

\* contents[: error.offset].count("\n") + 1
LineNo(text, offset) ==
    Cardinality({k \in 1..Len(text) : k <= offset /\ text[k] = NL}) + 1

\* for error in errors: report.failed(...); if errors: return 1
ReportErrors ==
    /\ pc = "returned"
    /\ errors # <<>>
    /\ report' = [report EXCEPT
                    !.failed = @ \o [k \in 1..Len(errors) |->
                                        [lineno |-> LineNo(contents, errors[k].offset),
                                         what |-> "code block parse error"]],
                    !.ret = "1"]
    /\ pc' = "done"
    /\ UNCHANGED <<file, contents, src, errors, passIn, proseVars>>

\* the write as it would be without "if errors: return 1"
RewriteDespiteErrors ==
    /\ pc = "returned"
    /\ contents # src
    /\ file' = src
    /\ report' = [report EXCEPT !.done = "YES"]
    /\ pc' = "done"
    /\ UNCHANGED <<contents, src, errors, passIn, proseVars>>

\* contents != new_contents and not report.check: open(file, "w") empties the
\* file and f.write(new_contents) stores the new text
Rewrite ==
    /\ pc = "returned"
    /\ errors = <<>>
    /\ contents # src
    /\ file' = src
    /\ report' = [report EXCEPT !.done = "YES"]
    /\ pc' = "done"
    /\ UNCHANGED <<contents, src, errors, passIn, proseVars>>

\* f.write raises: the file was emptied by open(file, "w") and holds what was
\* written before the failure; report.failed(file, traceback)
RewriteFails ==
    /\ pc = "returned"
    /\ errors = <<>>
    /\ contents # src
    /\ \E k \in 0..(Len(src) - 1) : file' = SubSeq(src, 1, k)
    /\ report' = [report EXCEPT
                    !.failed = Append(@, [lineno |-> 0, what |-> "traceback"])]
    /\ pc' = "done"
    /\ UNCHANGED <<contents, src, errors, passIn, proseVars>>

\* report.check and report.diff: nothing is written, report.done(Changed.YES)
CheckDiff ==
    /\ pc = "returned"
    /\ errors = <<>>
    /\ contents # src
    /\ report' = [report EXCEPT !.done = "YES"]
    /\ pc' = "done"
    /\ UNCHANGED <<file, contents, src, errors, passIn, proseVars>>

\* the else branch: report.done(Changed.NO); reached when nothing changed, or
\* with report.check and not report.diff
Unchanged ==
    /\ pc = "returned"
    /\ errors = <<>>
    /\ report' = [report EXCEPT !.done = "NO"]
    /\ pc' = "done"
    /\ UNCHANGED <<file, contents, src, errors, passIn, proseVars>>

Next ==
    \/ ReadFile
    \/ MdPass
    \/ RstPass
    \/ RstPassRaises
    \/ LatexPass
    \/ PythontexPass
    \/ ReportErrors
    \/ Rewrite
    \/ RewriteFails
    \/ CheckDiff
    \/ Unchanged

Spec == Init /\ [][Next]_vars

-----------------------------------------------------------------------------
(* Reading a pass: its blocks, its output *)

\* the blocks a pass finds in s from pos on, left to right, none overlapping
RECURSIVE Matches(_, _, _)
Matches(pass, s, pos) ==
    LET m == NextMatch(pass, s, pos)
    IN  IF m.start = 0 THEN <<>> ELSE <<m>> \o Matches(pass, s, m.end)

\* the passes that have returned, and the text each of them returned
PassesDone == 1..Len(passIn)
PassOut(k) == IF k < Len(passIn) THEN passIn[k + 1] ELSE src

\* the pass that returned in the step into this state, if one did; passIn and
\* the output of a pass never change afterwards
JustReturned ==
    IF pc \in {"rst", "latex", "pythontex", "returned"} THEN {Len(passIn)} ELSE {}
BlocksOf(k) == Matches(Passes[k], passIn[k], 1)

\* what the formatter says of the code of block m
Accepted(m) == BlackFormat(Dedent(m.code)).ok

StartsWith(r, p) == Len(r) >= Len(p) /\ SubSeq(r, 1, Len(p)) = p
EndsWith(r, p) == Len(r) >= Len(p) /\ SubSeq(r, Len(r) - Len(p) + 1, Len(r)) = p

\* the part of an emitted block r between the delimiters of block m
Inner(m, r) == SubSeq(r, Len(m.before) + 1, Len(r) - Len(m.after))

\* the emitted block r keeps the delimiters of block m
KeepsDelimiters(m, r) ==
    /\ Len(r) >= Len(m.before) + Len(m.after)
    /\ StartsWith(r, m.before)
    /\ EndsWith(r, m.after)

\* the lines of c that hold something other than spaces
NonBlank(c) == {k \in 1..Len(SplitLines(c)) : ~IsBlankLine(SplitLines(c)[k])}

\* the least number of leading spaces over the non-blank lines of c
MinIndentOf(c) == Min({CountSp(SplitLines(c)[k], 1) : k \in NonBlank(c)})

\* an opening marker of alias l stands at i behind n spaces
PyOpenerAt(s, i, l, n) ==
    /\ IsBOL(s, i)
    /\ CountSp(s, i) = n
    /\ i + n + 1 <= Len(s)
    /\ s[i + n] = PyBegin[l]
    /\ s[i + n + 1] = NL

\* the places <<i, j>> of s where text of the form \begin{A} ... \end{B} stands:
\* an opening marker at i and, below it at the same indent, the closing marker
\* of another alias at j
Mismatches(s) ==
    {ij \in (1..Len(s)) \X (1..Len(s)) :
        /\ ij[1] < ij[2]
        /\ \E l, l2 \in PYTHONTEX_LANG : \E n \in 0..Len(s) :
              /\ l # l2
              /\ PyOpenerAt(s, ij[1], l, n)
              /\ CloseAt(s, ij[2], n, PyEnd[l2])}

\* block m of s shares text with a \begin{A} ... \end{B} of s
Touches(m, s) == \E ij \in Mismatches(s) : m.start <= ij[2] /\ ij[1] < m.end

\* what is asked of the text r emitted for block m
RegionOk(kind, m, r) ==
    CASE kind = "frame" -> KeepsDelimiters(m, r)
      [] kind = "formatted" ->
            /\ KeepsDelimiters(m, r)
            /\ Accepted(m) =>
                 RStrip(Dedent(Inner(m, r))) = RStrip(BlackFormat(Dedent(m.code)).out)
      [] kind = "passthrough" ->
            /\ KeepsDelimiters(m, r)
            /\ ~Accepted(m) => r = m.before \o m.code \o m.after
      [] kind = "trailing" ->
            /\ KeepsDelimiters(m, r)
            /\ TrailingNl(Inner(m, r)) = TrailingNl(m.code)
            /\ ~Accepted(m) => Dedent(Inner(m, r)) = Dedent(m.code)
      [] kind = "minindent" ->
            /\ KeepsDelimiters(m, r)
            /\ NonBlank(m.code) # {} =>
                 /\ NonBlank(Inner(m, r)) # {}
                 /\ MinIndentOf(Inner(m, r)) = MinIndentOf(m.code)
                 /\ Accepted(m) =>
                      \A k \in NonBlank(Inner(m, r)) :
                          CountSp(SplitLines(Inner(m, r))[k], 1) = MinIndentOf(m.code)
      [] kind = "mismatch" ->
            /\ KeepsDelimiters(m, r)
            /\ Touches(m, passIn[4]) => r = m.before \o m.code \o m.after

\* t reads as s with every block of ms replaced by a text that is RegionOk, and
\* everything else copied: s from ps on against t from pt on
RECURSIVE Decomposes(_, _, _, _, _, _)
Decomposes(kind, s, t, ps, pt, ms) ==
    IF ms = <<>> THEN SubSeq(s, ps, Len(s)) = SubSeq(t, pt, Len(t))
    ELSE LET m == Head(ms)
             at == pt + (m.start - ps)
         IN  /\ at <= Len(t) + 1
             /\ SubSeq(s, ps, m.start - 1) = SubSeq(t, pt, at - 1)
             /\ \E n \in 0..(Len(t) + 1 - at) :
                    /\ RegionOk(kind, m, SubSeq(t, at, at + n - 1))
                    /\ Decomposes(kind, s, t, m.end, at + n, Tail(ms))

-----------------------------------------------------------------------------
(* C1 *)

\* C1: every pass, when it returns, has copied the text outside its blocks,
\* and the opening and the closing delimiter of each block, unchanged and in
\* order; a block's before, code and after make up the span it matched.
FrameKept ==
    \A k \in JustReturned :
        /\ Decomposes("frame", passIn[k], PassOut(k), 1, 1, BlocksOf(k))
        /\ \A b \in 1..Len(BlocksOf(k)) :
             LET m == BlocksOf(k)[b]
             IN  m.before \o m.code \o m.after = SubSeq(passIn[k], m.start, m.end - 1)

\* a pass rewrote the code of a fenced or environment block in a document
\* that has text before the block or after its closing delimiter
FrameKeptWitness ==
    /\ pc = "returned"
    /\ \E k \in PassesDone : \E b \in 1..Len(BlocksOf(k)) :
          /\ BlocksOf(k)[b].start > 1 \/ BlocksOf(k)[b].end <= Len(passIn[k])
          /\ BlocksOf(k)[b].after # <<>>
          /\ Accepted(BlocksOf(k)[b])
          /\ \E i \in 1..Len(BlocksOf(k)[b].code) : BlocksOf(k)[b].code[i] = RAW

-----------------------------------------------------------------------------
(* C2 *)

\* C2: when format_str returns a text with no error, format_str on that text
\* returns the same text with no error.
Idempotent ==
    (pc = "returned" /\ errors = <<>>) =>
        LET again == FormatStr(src)
        IN  ~again.raised /\ again.errs = <<>> /\ again.text = src

-----------------------------------------------------------------------------
(* C3 *)

\* the errors the blocks ms of a pass give: one for each rejected block, at the
\* block's start, in order
RECURSIVE RejectedIn(_, _)
RejectedIn(pass, ms) ==
    IF ms = <<>> THEN <<>>
    ELSE (IF Accepted(Head(ms)) THEN <<>>
          ELSE <<[offset |-> Head(ms).start - 1, pass |-> pass]>>)
         \o RejectedIn(pass, Tail(ms))

RECURSIVE RejectedUpTo(_)
RejectedUpTo(k) ==
    IF k = 0 THEN <<>>
    ELSE RejectedUpTo(k - 1) \o RejectedIn(Passes[k], BlocksOf(k))

\* C3: a rejected block stops nothing: when a pass returns, each accepted block
\* is replaced by its formatted code, and when format_str returns the error
\* list holds one entry for each rejected block and none for an accepted one.
Recovered ==
    /\ \A k \in JustReturned :
          Decomposes("formatted", passIn[k], PassOut(k), 1, 1, BlocksOf(k))
    /\ pc = "returned" => errors = RejectedUpTo(Len(passIn))

\* a pass with a rejected block and, after it, an accepted block that it rewrote
RecoveredWitness ==
    /\ pc = "returned"
    /\ \E k \in PassesDone : \E a, b \in 1..Len(BlocksOf(k)) :
          /\ a < b
          /\ ~Accepted(BlocksOf(k)[a])
          /\ Accepted(BlocksOf(k)[b])
          /\ \E i \in 1..Len(BlocksOf(k)[b].code) : BlocksOf(k)[b].code[i] = RAW
          /\ Len(errors) = 1

-----------------------------------------------------------------------------
(* C4 *)

\* C4: format_file with errors: the stored document is as it was read, nothing
\* is reported done, and there is one parse-error message for each error.
StrictOnErrors ==
    (pc = "done" /\ errors # <<>>) =>
        /\ file = contents
        /\ report.done = "none"
        /\ Len(report.failed) = Len(errors)
        /\ \A k \in 1..Len(report.failed) :
              report.failed[k].what = "code block parse error"

\* errors were reported for a document in which another block was rewritten
StrictOnErrorsWitness ==
    /\ pc = "done"
    /\ errors # <<>>
    /\ src # contents
    /\ file = contents
    /\ Len(report.failed) = Len(errors)

-----------------------------------------------------------------------------
(* C5 *)

\* C5: the text emitted for a rejected block is the span the block matched,
\* unchanged, in every dialect.
PassThroughExact ==
    \A k \in PassesDone :
        Decomposes("passthrough", passIn[k], PassOut(k), 1, 1, BlocksOf(k))

-----------------------------------------------------------------------------
(* C6 *)

PassIndex(pass) == CHOOSE k \in 1..Len(Passes) : Passes[k] = pass

\* the first token behind the leading spaces of line ln of text; "" if none
LineTokenAt(text, ln) ==
    LET ls == SplitLines(text)
    IN  IF ln \notin 1..Len(ls) THEN ""
        ELSE IF CountSp(ls[ln], 1) >= Len(ls[ln]) THEN ""
        ELSE ls[ln][CountSp(ls[ln], 1) + 1]

\* the opening marker of the block that error e was recorded for
OpeningOf(e) ==
    LET s == passIn[PassIndex(e.pass)]
    IN  s[e.offset + 1 + CountSp(s, e.offset + 1)]

\* C6: the line a message names is, in the text read from the file, the line
\* that opens the rejected block (it holds the block's opening marker), also
\* for a block of a later pass.
LineNumbersRight ==
    (pc = "done" /\ errors # <<>>) =>
        \A k \in 1..Len(errors) :
            LineTokenAt(contents, report.failed[k].lineno) = OpeningOf(errors[k])

-----------------------------------------------------------------------------
(* C7 *)

\* C7: the text emitted for a directive block ends with the run of newlines
\* that ended the captured code, and the code before that run is not cut: a
\* rejected block keeps every line of its code, to the last character.
TrailingRunKept ==
    \A k \in PassesDone :
        Passes[k] = "rst" =>
            Decomposes("trailing", passIn[k], PassOut(k), 1, 1, BlocksOf(k))

-----------------------------------------------------------------------------
(* C8 *)

\* C8: a directive block is put back at the indent m that is the least number
\* of leading spaces over the non-blank lines of its code: every non-blank
\* line of formatted code stands behind exactly m spaces.
MinIndentRestored ==
    \A k \in PassesDone :
        Passes[k] = "rst" =>
            Decomposes("minindent", passIn[k], PassOut(k), 1, 1, BlocksOf(k))

-----------------------------------------------------------------------------
(* C9 *)

\* block m closes with the alias it opened with, at the indent it opened at
ClosesOwnAlias(m) ==
    \E l \in PYTHONTEX_LANG :
        /\ m.before = m.indent \o <<PyBegin[l], NL>>
        /\ StartsWith(m.after, m.indent \o <<PyEnd[l]>>)

-----------------------------------------------------------------------------
(* C10 *)

\* C10: format_str returns from the directive pass only if every directive
\* block it matched has a non-blank line in its code.
BlankCodeFails ==
    Len(passIn) >= 2 =>
        \A b \in 1..Len(BlocksOf(2)) : NonBlank(BlocksOf(2)[b].code) # {}

-----------------------------------------------------------------------------
(* The prose functions: fix_inline *)

\* the two modules that define the prose functions
PKG == "blacken_docs/formatter.py"
TOP == "formatter.py"

BT == "'"           \* the backtick (see MD_OPEN)
DOT == "."
LPAR == "("
INT == <<"i", "n", "t">>

\* \w and \d on the characters of the texts below
WordChars == {"i", "n", "t", "a", "1"}
Digits == {"1"}

\* INLINE_WRAPPED_TYPES: "\d+", "None", "NoneType", "True", "False" and the names
\* of the built-in exceptions and types; the texts below use the name int
InlineNames == {INT}

\* the ends e of the prefixes of word that one alternative of
\* INLINE_WRAPPED_TYPES matches
CandidateEnds(word) ==
    {e \in 1..Len(word) :
        \/ SubSeq(word, 1, e) \in InlineNames
        \/ \A k \in 1..e : word[k] \in Digits}

\* $ without re.MULTILINE after position p of word: at the end, or before a
\* newline that ends the word
AtDollar(word, p) == p = Len(word) \/ (p + 1 = Len(word) /\ word[p + 1] = NL)

\* what FIND_NOT_INLINE_TYPES asks after a candidate that ends at e, "\W?$" in
\* the package and "[^()]$" in the module: the end of the match, or 0
NotInlineTail(m, word, e) ==
    IF m = PKG
    THEN IF e < Len(word) /\ word[e + 1] \notin WordChars /\ AtDollar(word, e + 1)
         THEN e + 1
         ELSE IF AtDollar(word, e) THEN e ELSE 0
    ELSE IF e < Len(word) /\ word[e + 1] \notin {"(", ")"} /\ AtDollar(word, e + 1)
         THEN e + 1
         ELSE 0

\* the match with the candidate that ends at the greatest of es (alternatives
\* are greedy and give characters back one at a time)
NotInlineAt(m, word, es) ==
    IF es = {} THEN [e |-> 0, span |-> 0]
    ELSE [e |-> Max(es), span |-> NotInlineTail(m, word, Max(es))]

\* FIND_NOT_INLINE_TYPES.match(word): e is the end of group 1 and span the end
\* of the match; e = 0 for no match
FIND_NOT_INLINE_TYPES(m, word) ==
    NotInlineAt(m, word, {e \in CandidateEnds(word) : NotInlineTail(m, word, e) # 0})

\* what FIND_INLINE_TYPES asks of the text rest after the closing backticks:
\* "\W?$" in the package, "$" in the module
InlineTail(m, rest) ==
    \/ AtDollar(rest, 0)
    \/ m = PKG /\ rest # <<>> /\ rest[1] \notin WordChars /\ AtDollar(rest, 1)

\* FIND_INLINE_TYPES.match(word): a candidate between double backticks
FIND_INLINE_TYPES(m, word) ==
    /\ Len(word) >= 5
    /\ word[1] = BT
    /\ word[2] = BT
    /\ \E e \in 3..(Len(word) - 2) :
          /\ e - 2 \in CandidateEnds(SubSeq(word, 3, Len(word)))
          /\ word[e + 1] = BT
          /\ word[e + 2] = BT
          /\ InlineTail(m, SubSeq(word, e + 3, Len(word)))

\* word.strip("`"), and word.strip("``") which strips the same characters
StripTicks(word) ==
    IF \A k \in 1..Len(word) : word[k] = BT THEN <<>>
    ELSE SubSeq(word,
                Min({k \in 1..Len(word) : word[k] # BT}),
                Max({k \in 1..Len(word) : word[k] # BT}))

\* the text word with match g replaced by r"``\1``"
Rewrapped(word, g) ==
    IF g.e = 0 THEN word
    ELSE <<BT, BT>> \o SubSeq(word, 1, g.e) \o <<BT, BT>>
         \o SubSeq(word, g.span + 1, Len(word))

\* FIND_NOT_INLINE_TYPES.sub(r"``\1``", word): the pattern is anchored, so it
\* matches at most once
SubNotInline(m, word) == Rewrapped(word, FIND_NOT_INLINE_TYPES(m, word))

\* is_not_fully_wrapped
is_not_fully_wrapped(w) ==
    /\ Len(w) > 4
    /\ w[1] = BT
    /\ w[Len(w)] = BT
    /\ ~(w[2] = BT /\ w[Len(w) - 1] = BT)

\* if is_not_fully_wrapped(word): word = f"``{word.strip('`')}``"
SimpleFix(word) ==
    IF is_not_fully_wrapped(word)
    THEN <<BT, BT>> \o StripTicks(word) \o <<BT, BT>>
    ELSE word

\* the body of the loop over the words of a line
FixWord(m, word) ==
    SimpleFix(IF FIND_NOT_INLINE_TYPES(m, word).e # 0 /\ ~FIND_INLINE_TYPES(m, word)
              THEN SubNotInline(m, StripTicks(word))
              ELSE word)

\* line.split(" ")
RECURSIVE SplitSp(_)
SplitSp(line) ==
    IF \A k \in 1..Len(line) : line[k] # SP THEN <<line>>
    ELSE <<SubSeq(line, 1, Min({k \in 1..Len(line) : line[k] = SP}) - 1)>>
         \o SplitSp(SubSeq(line, Min({k \in 1..Len(line) : line[k] = SP}) + 1,
                           Len(line)))

\* the words of the lines ls, in order
RECURSIVE WordsOf(_)
WordsOf(ls) == IF ls = <<>> THEN <<>> ELSE SplitSp(Head(ls)) \o WordsOf(Tail(ls))

\* sep.join(ws)
RECURSIVE JoinWith(_, _)
JoinWith(ws, sep) ==
    IF ws = <<>> THEN <<>>
    ELSE IF Len(ws) = 1 THEN ws[1]
    ELSE ws[1] \o sep \o JoinWith(Tail(ws), sep)

\* formatted: every word of every line, fixed
Formatted(m, ws) == [k \in 1..Len(ws) |-> FixWord(m, ws[k])]

\* "\n".join(ls) for the lines ls of text.splitlines()
JoinLines(ls) == JoinWith([k \in 1..Len(ls) |-> LineBody(ls[k])], <<NL>>)

\* fix_inline: the package ends with textwrap.dedent(f" {text}"), the module
\* returns text
fix_inline(m, s) ==
    IF m = PKG
    THEN Dedent(<<SP>> \o JoinLines(SplitLines(JoinWith(
             Formatted(m, WordsOf(SplitLines(s))), <<SP>>))))
    ELSE JoinLines(SplitLines(JoinWith(
             Formatted(m, WordsOf(SplitLines(s))), <<SP>>)))

-----------------------------------------------------------------------------
(* fix_inline called again and again on what it returned *)

MaxPieces == 4      \* pieces of a text given to fix_inline
MaxRuns == 2        \* calls of fix_inline in a row

\* what a text is made of: a literal name, a digit, another letter, a
\* backtick, a full stop, a parenthesis, a space, a newline
Pieces == {INT, <<"1">>, <<"a">>, <<BT>>, <<DOT>>, <<LPAR>>, <<SP>>, <<NL>>}

RECURSIVE Texts(_)
Texts(k) ==
    IF k = 0 THEN {<<>>}
    ELSE {t \o p : t \in Texts(k - 1), p \in Pieces \cup {<<>>}}

\* format_file is not running
DocIdle ==
    /\ file = <<>>
    /\ contents = <<>>
    /\ src = <<>>
    /\ errors = <<>>
    /\ pc = "idle"
    /\ report = [failed |-> <<>>, done |-> "none", ret |-> "none"]
    /\ passIn = <<>>

InlineInit ==
    /\ DocIdle
    /\ impl \in {PKG, TOP}
    /\ string \in Texts(MaxPieces)
    /\ returned = <<>>
    /\ mode = [line_length |-> 0]
    /\ given = 0
    /\ outcome = [how |-> "none", value |-> <<>>, calls |-> 0]

\* the argument of the next call: what the last call returned
LastText == IF returned = <<>> THEN string ELSE returned[Len(returned)]

\* text = fix_inline(text)
FixInlineCall ==
    /\ Len(returned) < MaxRuns
    /\ returned' = Append(returned, fix_inline(impl, LastText))
    /\ UNCHANGED <<docVars, impl, string, mode, given, outcome>>

InlineNext == FixInlineCall

InlineSpec == InlineInit /\ [][InlineNext]_vars

-----------------------------------------------------------------------------
(* C11 *)

\* C11: fix_inline on what fix_inline returned returns the same text, for every
\* text.
InlineIdempotent == Len(returned) >= 2 => returned[2] = returned[1]

-----------------------------------------------------------------------------
(* C12 *)

\* the characters of s that are no backticks, in order
Unticked(s) == SelectSeq(s, LAMBDA c : c # BT)

\* s is one token: it holds no space and no newline
OneToken(s) == \A k \in 1..Len(s) : s[k] \notin {SP, NL}

\* C12: a literal candidate followed by at most one character that is no
\* identifier character comes out between double backticks and followed by
\* that character; and in a token fix_inline adds and removes nothing but
\* backticks.
InlineKeepsCharacters ==
    Len(returned) >= 1 =>
        /\ \A c \in {INT, <<"1">>} : \A t \in {<<>>, <<DOT>>, <<LPAR>>} :
              string = c \o t => returned[1] = <<BT, BT>> \o c \o <<BT, BT>> \o t
        /\ OneToken(string) => Unticked(returned[1]) = Unticked(string)

-----------------------------------------------------------------------------
(* The prose functions: wrap_text, wrap_and_fix, blacken_code_blocks *)

\* textwrap: every whitespace character is replaced by a space
Munge(s) == [k \in 1..Len(s) |-> IF s[k] = NL THEN SP ELSE s[k]]

\* the end of the run of spaces, or of other characters, that s starts with
RunEnd(s) == Max({e \in 1..Len(s) : \A k \in 1..e : (s[k] = SP) = (s[1] = SP)})

\* textwrap: the chunks of s, runs of spaces and words in turn
RECURSIVE Chunks(_)
Chunks(s) ==
    IF s = <<>> THEN <<>>
    ELSE <<SubSeq(s, 1, RunEnd(s))>> \o Chunks(SubSeq(s, RunEnd(s) + 1, Len(s)))

\* chunk.strip() == ''
IsWs(chunk) == \A k \in 1..Len(chunk) : chunk[k] = SP

\* the length of the first k of the chunks cs
RECURSIVE LenOf(_, _)
LenOf(cs, k) == IF k = 0 THEN 0 ELSE LenOf(cs, k - 1) + Len(cs[k])

\* how many of the chunks cs the inner loop of _wrap_chunks puts on a line
Fit(cs, width) == Max({k \in 0..Len(cs) : LenOf(cs, k) <= width})

\* the next chunk is longer than a line: _handle_long_word breaks it
LongWord(cs, width, k) == k < Len(cs) /\ Len(cs[k + 1]) > width

\* cur_line when k chunks fitted, with the piece of a long word if one follows
CurLine(cs, width, k) ==
    IF LongWord(cs, width, k)
    THEN Append(SubSeq(cs, 1, k), SubSeq(cs[k + 1], 1, width - LenOf(cs, k)))
    ELSE SubSeq(cs, 1, k)

\* the chunks left for the lines that follow
ChunksLeft(cs, width, k) ==
    IF LongWord(cs, width, k)
    THEN <<SubSeq(cs[k + 1], width - LenOf(cs, k) + 1, Len(cs[k + 1]))>>
         \o SubSeq(cs, k + 2, Len(cs))
    ELSE SubSeq(cs, k + 1, Len(cs))

\* drop_whitespace at the end of a line: the last chunk goes if it is blank
DropTrailing(cur) ==
    IF cur # <<>> /\ IsWs(cur[Len(cur)]) THEN SubSeq(cur, 1, Len(cur) - 1) ELSE cur

RECURSIVE WrapChunks(_, _, _)

\* if cur_line: lines.append(''.join(cur_line)); then the chunks left
LineDone(cur, left, width, lines) ==
    WrapChunks(left, width, IF cur = <<>> THEN lines ELSE Append(lines, Join(cur)))

\* one turn of the outer loop of _wrap_chunks on the chunks cs
WrapLine(cs, width, lines) ==
    LineDone(DropTrailing(CurLine(cs, width, Fit(cs, width))),
             ChunksLeft(cs, width, Fit(cs, width)), width, lines)

\* TextWrapper._wrap_chunks for a width above 0; a blank chunk that would start
\* a line after the first is dropped
WrapChunks(chunks, width, lines) ==
    IF chunks = <<>> THEN lines
    ELSE WrapLine(IF lines # <<>> /\ IsWs(chunks[1]) THEN Tail(chunks) ELSE chunks,
                  width, lines)

\* textwrap.fill(s, width) for a width above 0
Fill(s, width) == JoinWith(WrapChunks(Chunks(Munge(s)), width, <<>>), <<NL>>)

\* wrap_text of the package: textwrap.fill(string, width=mode.line_length),
\* which raises ValueError for a width of 0 or less
wrap_text(s, line_length) ==
    IF line_length <= 0 THEN [raised |-> TRUE, text |-> <<>>]
    ELSE [raised |-> FALSE, text |-> Fill(s, line_length)]

COLONS == "::"

\* RST_RE.search of the module, on texts whose only marker is "::" before a
\* white-space character (the alternative "::\s"): before runs to the last
\* marker that has a line start after it, code to the last line start, and
\* "indent" + "code" is what lies between; start = 0 for no match
TopSearchAt(s, marks, nls) ==
    IF nls = {} \/ {i \in marks : i + 1 <= Max(nls)} = {}
    THEN [start |-> 0, before |-> <<>>, code |-> <<>>, after |-> <<>>]
    ELSE [start  |-> 1,
          before |-> SubSeq(s, 1, Max({i \in marks : i + 1 <= Max(nls)}) + 1),
          code   |-> SubSeq(s, Max({i \in marks : i + 1 <= Max(nls)}) + 2, Max(nls)),
          after  |-> SubSeq(s, Max(nls) + 1, Len(s))]

TopSearch(s) ==
    TopSearchAt(s,
                {i \in 1..(Len(s) - 1) : s[i] = COLONS /\ s[i + 1] \in {SP, NL}},
                {j \in 1..Len(s) : s[j] = NL})

\* how a call ends: by returning value, or by raising
Ended(raised, value) ==
    [how |-> IF raised THEN "raised" ELSE "returned",
     value |-> IF raised THEN <<>> ELSE value,
     calls |-> outcome.calls + 1]

-----------------------------------------------------------------------------
(* Calls of wrap_and_fix and blacken_code_blocks on one shared mode *)

MaxWrap == 3        \* pieces of the text given to wrap_and_fix
MaxCalls == 2       \* calls on the shared mode

LineLengths == {4, 6}
IndentArgs == {4}

\* the argument of blacken_code_blocks: a statement, an indented statement, a
\* rejected one, and the same after a "::" marker
CodeInputs ==
    {<<RAW, NL>>, <<SP, RAW, NL>>, <<SP, BAD, NL>>,
     <<COLONS, NL, SP, RAW, NL>>, <<COLONS, NL, SP, BAD, NL>>, <<COLONS, SP, RAW>>}

\* the caller holds a mode and, for wrap_and_fix (package only), a text
ModeInit ==
    /\ DocIdle
    /\ \/ impl = PKG /\ string \in Texts(MaxWrap)
       \/ impl = TOP /\ string = <<>>
    /\ returned = <<>>
    /\ \E n \in LineLengths : mode = [line_length |-> n] /\ given = n
    /\ outcome = [how |-> "none", value |-> <<>>, calls |-> 0]

\* wrap_and_fix(text, mode=mode): indent is None, the mode is only read
WrapAndFix ==
    /\ impl = PKG
    /\ outcome.calls < MaxCalls
    /\ \E r \in {wrap_text(fix_inline(PKG, string), mode.line_length)} :
          outcome' = Ended(r.raised, r.text)
    /\ UNCHANGED <<docVars, impl, string, returned, mode, given>>

\* wrap_and_fix(text, mode=mode, indent=indent): mode.line_length -= indent,
\* then fix_inline and wrap_text, then mode.line_length += indent and the
\* indented text; an exception of wrap_text leaves before the "+="
WrapAndFixIndented ==
    /\ impl = PKG
    /\ outcome.calls < MaxCalls
    /\ \E indent \in IndentArgs :
       \E r \in {wrap_text(fix_inline(PKG, string), mode.line_length - indent)} :
          /\ outcome' = Ended(r.raised, Indent(r.text, Spaces(indent)))
          /\ mode' = [mode EXCEPT !.line_length =
                         IF r.raised THEN @ - indent ELSE (@ - indent) + indent]
    /\ UNCHANGED <<docVars, impl, string, returned, given>>

\* blacken_code_blocks of the package: indent(black.format_str(dedent(code)))
BlackenCodeBlocks ==
    /\ impl = PKG
    /\ outcome.calls < MaxCalls
    /\ \E code \in CodeInputs : \E r \in {BlackFormat(Dedent(code))} :
          outcome' = Ended(~r.ok, Indent(r.out, Spaces(4)))
    /\ UNCHANGED <<docVars, impl, string, returned, mode, given>>

\* blacken_code_blocks of the module when RST_RE finds nothing: the string is
\* returned before the mode is touched
BlackenNothing ==
    /\ impl = TOP
    /\ outcome.calls < MaxCalls
    /\ \E code \in CodeInputs :
          /\ TopSearch(code).start = 0
          /\ outcome' = Ended(FALSE, code)
    /\ UNCHANGED <<docVars, impl, string, returned, mode, given>>

\* blacken_code_blocks of the module on a match: mode.line_length -= 4, the
\* formatter on indent + code, mode.line_length += 4, the three parts joined;
\* the loop "while new_before != old_before" runs no turn, both being the
\* before of the same search; a formatter rejection leaves before the "+="
BlackenBlock ==
    /\ impl = TOP
    /\ outcome.calls < MaxCalls
    /\ \E code \in CodeInputs : \E s \in {TopSearch(code)} :
       \E r \in {BlackFormat(Dedent(s.code))} :
          /\ s.start # 0
          /\ outcome' = Ended(~r.ok, s.before \o Indent(r.out, Spaces(4)) \o s.after)
          /\ mode' = [mode EXCEPT !.line_length =
                         IF r.ok THEN (@ - 4) + 4 ELSE @ - 4]
    /\ UNCHANGED <<docVars, impl, string, returned, given>>

ModeNext ==
    \/ WrapAndFix
    \/ WrapAndFixIndented
    \/ BlackenCodeBlocks
    \/ BlackenNothing
    \/ BlackenBlock

ModeSpec == ModeInit /\ [][ModeNext]_vars

-----------------------------------------------------------------------------
(* C13 *)

\* C13: after every call, returned or raised, mode.line_length is what it was
\* before the first call.
ModeKept == outcome.calls >= 1 => mode.line_length = given

====
